---- MODULE Spec2Model ----
(***************************************************************************)
(* Model of FDL-6xTC-Test-Mk1.ino: setup(), loop(), the two init functions *)
(* and the two read functions.  The Adafruit drivers, the NeoPixel and the *)
(* serial port are the environment: every value a driver call returns is   *)
(* chosen nondeterministically from the range of its return type.          *)
(***************************************************************************)
EXTENDS Integers, Sequences, FiniteSets

\* ------------------------------------------------------------------------
\* Bounds
\* ------------------------------------------------------------------------

\* numeric temperatures the drivers return are (-MaxTemp)..MaxTemp
MaxTemp == 1

\* ------------------------------------------------------------------------
\* Program constants
\* ------------------------------------------------------------------------

COLOR_OFF == 0
COLOR_INIT == 255
COLOR_OK == 65280
COLOR_WARNING == 16776960
COLOR_ERROR == 16711680

\* fault flags of the MAX31855 driver, as tested in readMAX31855 (the values
\* are those of the driver's header: one bit each, bits 0 to 2)
MAX31855_FAULT_OPEN == 1
MAX31855_FAULT_SHORT_GND == 2
MAX31855_FAULT_SHORT_VCC == 4

\* fault flags of the MAX31856 driver, as tested in readMAX31856 (the values
\* are those of the driver's header: one bit each, bits 0 to 7; the comment
\* at line 315 gives Open + TC out of range = 0x41)
MAX31856_FAULT_OPEN == 1
MAX31856_FAULT_OVUV == 2
MAX31856_FAULT_TCLOW == 4
MAX31856_FAULT_TCHIGH == 8
MAX31856_FAULT_CJLOW == 16
MAX31856_FAULT_CJHIGH == 32
MAX31856_FAULT_TCRANGE == 64
MAX31856_FAULT_CJRANGE == 128

\* fault == 0xFF in readMAX31856
ALL_FAULTS == 255

\* tc0..tc3 are Adafruit_MAX31855, tc4 and tc5 are Adafruit_MAX31856
TypeA == 0 .. 3
TypeB == 4 .. 5
Channels == TypeA \cup TypeB

\* the not-a-number value of readCelsius()
NaN == [nan |-> TRUE, c |-> 0]
\* what readCelsius() / readThermocoupleTemperature() can return
Temps == {NaN} \cup {[nan |-> FALSE, c |-> t] : t \in (0 - MaxTemp) .. MaxTemp}
\* what readError() / readFault() can return (uint8_t)
Faults == 0 .. ALL_FAULTS

isnan(t) == t.nan

\* (fault & flag) != 0 for a single-bit flag
HasFlag(fault, flag) == (fault \div flag) % 2 = 1

\* argument standing for a driver value the call never asks for: readError()
\* is called only after a NaN temperature, readThermocoupleTemperature() only
\* after a fault of 0
NotRead == 0
NotReadT == [nan |-> FALSE, c |-> 0]

VARIABLES
  pc,             \* position of the single thread of control
  allOK,          \* local allOK of the running init function
  begun,          \* per channel: result of begin(), or "none" when not called
  led,            \* colour last given to setStatusLED (COLOR_OFF before)
  ledAtEntry,     \* colour shown when the current loop() call was entered
  anyFaults,      \* local of loop()
  criticalError,  \* local of loop(), passed by reference to the read functions
  verdict,        \* per channel: what its read call of this loop() did
                  \* (hasFault: the value returned; isCritical: the call
                  \* assigned criticalError = true)
  in855,          \* per MAX31855 channel: what the driver returned to its
                  \* read call of this loop() (tempNaN: readCelsius() gave
                  \* NaN; noFlag: readError() was called and gave a bitmask
                  \* with none of the three flags)
  order,          \* channels read so far in this loop() call, in call order
  ledWrites,      \* setStatusLED calls made so far in this loop() call
  arg             \* driver values of one isolated read call (SpecRead only)

vars == <<pc, allOK, begun, led, ledAtEntry, anyFaults, criticalError,
          verdict, in855, order, ledWrites, arg>>

NoVerdict == [read |-> FALSE, hasFault |-> FALSE, isCritical |-> FALSE]

NoInput == [tempNaN |-> FALSE, noFlag |-> FALSE]

NoArg == [ch |-> 0 - 1, temp |-> NaN, fault |-> 0]

BeginPc == <<"begin0", "begin1", "begin2", "begin3", "begin4", "begin5">>
ReadPc == <<"read0", "read1", "read2", "read3", "read4", "read5">>

\* ------------------------------------------------------------------------
\* Reading functions
\* ------------------------------------------------------------------------

B2N(b) == IF b THEN 1 ELSE 0

\* a MAX31855 bitmask with none of OPEN (1), SHORT_GND (2), SHORT_VCC (4)
NoKnownFlag(fault) == fault % 8 = 0

\* the three  if (fault & ...) faultCount++  of readMAX31855
FaultCount855(fault) ==
  B2N(HasFlag(fault, MAX31855_FAULT_OPEN))
  + B2N(HasFlag(fault, MAX31855_FAULT_SHORT_GND))
  + B2N(HasFlag(fault, MAX31855_FAULT_SHORT_VCC))

\* the eight  if (fault & ...) faultCount++  of readMAX31856
FaultCount856(fault) ==
  B2N(HasFlag(fault, MAX31856_FAULT_OPEN))
  + B2N(HasFlag(fault, MAX31856_FAULT_OVUV))
  + B2N(HasFlag(fault, MAX31856_FAULT_TCLOW))
  + B2N(HasFlag(fault, MAX31856_FAULT_TCHIGH))
  + B2N(HasFlag(fault, MAX31856_FAULT_CJLOW))
  + B2N(HasFlag(fault, MAX31856_FAULT_CJHIGH))
  + B2N(HasFlag(fault, MAX31856_FAULT_TCRANGE))
  + B2N(HasFlag(fault, MAX31856_FAULT_CJRANGE))

\* readMAX31855 with  faultCount > 0  for  faultCount > 1
readMAX31855_AnyFlagCritical(tempC, fault, critIn) ==
  IF isnan(tempC)
    THEN LET faultCount == FaultCount855(fault)
         IN  [hasFault |-> TRUE,
              isCritical |-> faultCount > 0,
              criticalError |-> IF faultCount > 0 THEN TRUE ELSE critIn]
    ELSE [hasFault |-> FALSE,
          isCritical |-> FALSE,
          criticalError |-> critIn]

\* readMAX31855 with hasFault taken from the bitmask:  hasFault = (fault != 0)
readMAX31855_ByMask(tempC, fault, critIn) ==
  IF isnan(tempC)
    THEN LET faultCount == FaultCount855(fault)
         IN  [hasFault |-> fault # 0,
              isCritical |-> faultCount > 1,
              criticalError |-> IF faultCount > 1 THEN TRUE ELSE critIn]
    ELSE [hasFault |-> FALSE,
          isCritical |-> FALSE,
          criticalError |-> critIn]

\* readMAX31855 with  hasFault = true  moved under the three flag tests
readMAX31855_Flagged(tempC, fault, critIn) ==
  IF isnan(tempC)
    THEN LET faultCount == FaultCount855(fault)
         IN  [hasFault |-> faultCount > 0,
              isCritical |-> faultCount > 1,
              criticalError |-> IF faultCount > 1 THEN TRUE ELSE critIn]
    ELSE [hasFault |-> FALSE,
          isCritical |-> FALSE,
          criticalError |-> critIn]

\* readMAX31855(tc, channel, criticalError): tempC is what tc.readCelsius()
\* returns, fault what tc.readError() returns when it is called (only after a
\* NaN temperature).  Result: the returned hasFault, the value of the
\* by-reference criticalError afterwards, and the locals of the call.
readMAX31855(tempC, fault, critIn) ==
  IF isnan(tempC)
    THEN LET faultCount == FaultCount855(fault)
         IN  [hasFault |-> TRUE,
              isCritical |-> faultCount > 1,
              criticalError |-> IF faultCount > 1 THEN TRUE ELSE critIn]
    ELSE [hasFault |-> FALSE,
          isCritical |-> FALSE,
          criticalError |-> critIn]

\* readMAX31856 with  faultCount > 1  for  faultCount > 2
readMAX31856_Gt1(tempC, fault, critIn) ==
  IF fault # 0
    THEN LET faultCount == FaultCount856(fault)
             crit == faultCount > 1 \/ fault = ALL_FAULTS
         IN  [hasFault |-> TRUE,
              isCritical |-> crit,
              criticalError |-> IF crit THEN TRUE ELSE critIn]
    ELSE [hasFault |-> FALSE,
          isCritical |-> FALSE,
          criticalError |-> critIn]

\* readMAX31856(tc, channel, criticalError): fault is what tc.readFault()
\* returns; the temperature is read only when fault is 0 and is only printed.
readMAX31856(tempC, fault, critIn) ==
  IF fault # 0
    THEN LET faultCount == FaultCount856(fault)
             crit == faultCount > 2 \/ fault = ALL_FAULTS
         IN  [hasFault |-> TRUE,
              isCritical |-> crit,
              criticalError |-> IF crit THEN TRUE ELSE critIn]
    ELSE [hasFault |-> FALSE,
          isCritical |-> FALSE,
          criticalError |-> critIn]

\* the call for channel ch, as loop() makes it
ReadChannel(ch, tempC, fault, critIn) ==
  IF ch \in TypeA THEN readMAX31855(tempC, fault, critIn)
                  ELSE readMAX31856(tempC, fault, critIn)

\* what the drivers can hand to the read call of channel ch: <<tempC, fault>>.
\* readMAX31855 asks for the temperature and, only after NaN, for the bitmask;
\* readMAX31856 asks for the bitmask and, only after 0, for the temperature.
DriverValues(ch) ==
  IF ch \in TypeA
    THEN {<<t, NotRead>> : t \in Temps \ {NaN}} \cup {<<NaN, f>> : f \in Faults}
    ELSE {<<t, 0>> : t \in Temps} \cup {<<NotReadT, f>> : f \in Faults \ {0}}

\* anyFaults |= readMAX3185x(tcN, N, criticalError), on the driver values
\* tempC and fault: the new values of the two flags of loop(), and what is
\* recorded of the call in verdict and in855
ReadOutcome(ch, tempC, fault, anyF, critIn) ==
  LET r == ReadChannel(ch, tempC, fault, critIn)
  IN  [anyFaults |-> (anyF \/ r.hasFault),
       criticalError |-> r.criticalError,
       hasFault |-> r.hasFault,
       isCritical |-> r.isCritical,
       tempNaN |-> (ch \in TypeA /\ isnan(tempC)),
       noFlag |-> (ch \in TypeA /\ isnan(tempC) /\ NoKnownFlag(fault))]

\* every outcome the read statement of channel ch can have, entered with the
\* flags anyF and critIn
Outcomes ==
  [ch \in Channels, anyF \in BOOLEAN, critIn \in BOOLEAN |->
     {ReadOutcome(ch, d[1], d[2], anyF, critIn) : d \in DriverValues(ch)}]

\* the state after the read statement of channel ch with outcome o
Commit(ch, o) ==
  /\ anyFaults' = o.anyFaults
  /\ criticalError' = o.criticalError
  /\ verdict' = [verdict EXCEPT ![ch] =
                   [read |-> TRUE,
                    hasFault |-> o.hasFault,
                    isCritical |-> o.isCritical]]
  /\ in855' = IF ch \in TypeA
                THEN [in855 EXCEPT ![ch] =
                        [tempNaN |-> o.tempNaN, noFlag |-> o.noFlag]]
                ELSE in855
  /\ order' = Append(order, ch)

\* ------------------------------------------------------------------------
\* LED
\* ------------------------------------------------------------------------

\* the if / else if / else with the anyFaults test first
HealthColor_WarnFirst(anyF, crit) ==
  IF anyF THEN COLOR_WARNING
  ELSE IF crit THEN COLOR_ERROR
  ELSE COLOR_OK

\* the if / else if / else at the end of loop()
HealthColor(anyF, crit) ==
  IF crit THEN COLOR_ERROR
  ELSE IF anyF THEN COLOR_WARNING
  ELSE COLOR_OK

\* loop() from its first statement to the colour it gives setStatusLED, on
\* the six results v of its read calls: both flags start false, each call's
\* result is or-ed into anyFaults, each critical call sets criticalError
RECURSIVE LoopFlags(_, _, _, _)
LoopFlags(v, n, anyF, crit) ==
  IF n > 6 THEN [anyFaults |-> anyF, criticalError |-> crit]
  ELSE LoopFlags(v, n + 1,
                 anyF \/ v[n - 1].hasFault,
                 IF v[n - 1].isCritical THEN TRUE ELSE crit)

LoopColor(v) ==
  LET f == LoopFlags(v, 1, FALSE, FALSE)
  IN  HealthColor(f.anyFaults, f.criticalError)

\* ------------------------------------------------------------------------
\* State after construction
\* ------------------------------------------------------------------------

Init ==
  /\ pc = "setup"
  /\ allOK = TRUE
  /\ begun = [ch \in Channels |-> "none"]
  /\ led = COLOR_OFF
  /\ ledAtEntry = COLOR_OFF
  /\ anyFaults = FALSE
  /\ criticalError = FALSE
  /\ verdict = [ch \in Channels |-> NoVerdict]
  /\ in855 = [ch \in TypeA |-> NoInput]
  /\ order = <<>>
  /\ ledWrites = 0
  /\ arg = NoArg

loopVars ==
  <<ledAtEntry, anyFaults, criticalError, verdict, in855, order, ledWrites>>

\* ------------------------------------------------------------------------
\* setup()
\* ------------------------------------------------------------------------

\* setup() up to the call of initMAX31855Sensors() (the serial port has come
\* up, the LED shows COLOR_INIT), and its  allOK = true
SetupStart ==
  /\ pc = "setup"
  /\ led' = COLOR_INIT
  /\ allOK' = TRUE
  /\ pc' = BeginPc[1]
  /\ UNCHANGED <<begun, loopVars, arg>>

\* the four begin() calls of initMAX31855Sensors()
\* initMAX31855Sensors() returning false at the first failed begin()
Begin855_StopAtFirstFailure ==
  /\ \E ch \in TypeA :
       /\ pc = BeginPc[ch + 1]
       /\ \E ok \in BOOLEAN :
            /\ begun' = [begun EXCEPT ![ch] = IF ok THEN "ok" ELSE "failed"]
            /\ allOK' = (allOK /\ ok)
            /\ pc' = IF ch = 3 \/ ~ok THEN "check855" ELSE BeginPc[ch + 2]
  /\ UNCHANGED <<led, loopVars, arg>>

\* of initMAX31855Sensors(): if (!tcN.begin()) allOK = false;
Begin855 ==
  /\ \E ch \in TypeA :
       /\ pc = BeginPc[ch + 1]
       /\ \E ok \in BOOLEAN :
            /\ begun' = [begun EXCEPT ![ch] = IF ok THEN "ok" ELSE "failed"]
            /\ allOK' = (allOK /\ ok)
       /\ pc' = IF ch = 3 THEN "check855" ELSE BeginPc[ch + 2]
  /\ UNCHANGED <<led, loopVars, arg>>

\* if (!initMAX31855Sensors()) { setStatusLED(COLOR_ERROR); while (1) ... }
\* otherwise on to initMAX31856Sensors() and its  allOK = true
Check855 ==
  /\ pc = "check855"
  /\ IF ~allOK
       THEN /\ led' = COLOR_ERROR
            /\ pc' = "halted"
            /\ UNCHANGED allOK
       ELSE /\ pc' = BeginPc[5]
            /\ allOK' = TRUE
            /\ UNCHANGED led
  /\ UNCHANGED <<begun, loopVars, arg>>

\* the two begin() calls of initMAX31856Sensors()
\* of initMAX31856Sensors(): if (!tcN.begin()) allOK = false;
Begin856 ==
  /\ \E ch \in TypeB :
       /\ pc = BeginPc[ch + 1]
       /\ \E ok \in BOOLEAN :
            /\ begun' = [begun EXCEPT ![ch] = IF ok THEN "ok" ELSE "failed"]
            /\ allOK' = (allOK /\ ok)
       /\ pc' = IF ch = 5 THEN "check856" ELSE BeginPc[ch + 2]
  /\ UNCHANGED <<led, loopVars, arg>>

\* setup() going on to loop() after a failed initMAX31856Sensors()
Check856_Degraded ==
  /\ pc = "check856"
  /\ led' = IF ~allOK THEN COLOR_WARNING ELSE COLOR_OK
  /\ pc' = "loop"
  /\ UNCHANGED <<allOK, begun, loopVars, arg>>

\* if (!initMAX31856Sensors()) { setStatusLED(COLOR_ERROR); while (1) ... }
\* otherwise setStatusLED(COLOR_OK) and setup() returns
Check856 ==
  /\ pc = "check856"
  /\ IF ~allOK
       THEN /\ led' = COLOR_ERROR
            /\ pc' = "halted"
       ELSE /\ led' = COLOR_OK
            /\ pc' = "loop"
  /\ UNCHANGED <<allOK, begun, loopVars, arg>>

\* while (1) delay(10);
Halt ==
  /\ pc = "halted"
  /\ UNCHANGED vars

\* ------------------------------------------------------------------------
\* loop()
\* ------------------------------------------------------------------------

\* loop() with its two flags declared static
LoopEnter_StaticFlags ==
  /\ pc = "loop"
  /\ verdict' = [ch \in Channels |-> NoVerdict]
  /\ in855' = [ch \in TypeA |-> NoInput]
  /\ order' = <<>>
  /\ ledWrites' = 0
  /\ ledAtEntry' = led
  /\ pc' = ReadPc[1]
  /\ UNCHANGED <<allOK, begun, led, anyFaults, criticalError, arg>>

\* entry of loop(): bool anyFaults = false; bool criticalError = false;
LoopEnter ==
  /\ pc = "loop"
  /\ anyFaults' = FALSE
  /\ criticalError' = FALSE
  /\ verdict' = [ch \in Channels |-> NoVerdict]
  /\ in855' = [ch \in TypeA |-> NoInput]
  /\ order' = <<>>
  /\ ledWrites' = 0
  /\ ledAtEntry' = led
  /\ pc' = ReadPc[1]
  /\ UNCHANGED <<allOK, begun, led, arg>>

\* anyFaults |= readMAX31855(tc0..tc3, ...)
Read855 ==
  /\ \E ch \in TypeA :
       /\ pc = ReadPc[ch + 1]
       /\ \E o \in Outcomes[ch, anyFaults, criticalError] : Commit(ch, o)
       /\ pc' = ReadPc[ch + 2]
  /\ UNCHANGED <<allOK, begun, led, ledAtEntry, ledWrites, arg>>

\* loop() reading tc5 before tc4
Read856_Swapped ==
  /\ \E ch \in TypeB :
       /\ pc = ReadPc[ch + 1]
       /\ \E o \in Outcomes[9 - ch, anyFaults, criticalError] :
            Commit(9 - ch, o)
       /\ pc' = IF ch = 5 THEN "led" ELSE ReadPc[ch + 2]
  /\ UNCHANGED <<allOK, begun, led, ledAtEntry, ledWrites, arg>>

\* anyFaults |= readMAX31856(tc4, tc5, ...)
Read856 ==
  /\ \E ch \in TypeB :
       /\ pc = ReadPc[ch + 1]
       /\ \E o \in Outcomes[ch, anyFaults, criticalError] : Commit(ch, o)
       /\ pc' = IF ch = 5 THEN "led" ELSE ReadPc[ch + 2]
  /\ UNCHANGED <<allOK, begun, led, ledAtEntry, ledWrites, arg>>

\* loop() halting, as setup() does, when criticalError is set
UpdateLED_HaltOnCritical ==
  /\ pc = "led"
  /\ led' = HealthColor(anyFaults, criticalError)
  /\ ledWrites' = ledWrites + 1
  /\ pc' = IF criticalError THEN "halted" ELSE "delay"
  /\ UNCHANGED <<allOK, begun, ledAtEntry, anyFaults, criticalError,
                 verdict, in855, order, arg>>

\* Update LED color based on error
UpdateLED ==
  /\ pc = "led"
  /\ led' = HealthColor(anyFaults, criticalError)
  /\ ledWrites' = ledWrites + 1
  /\ pc' = "delay"
  /\ UNCHANGED <<allOK, begun, ledAtEntry, anyFaults, criticalError,
                 verdict, in855, order, arg>>

\* delay(1000); loop() returns (what is recorded of the call is dropped) and
\* is called again
Delay ==
  /\ pc = "delay"
  /\ pc' = "loop"
  /\ verdict' = [ch \in Channels |-> NoVerdict]
  /\ in855' = [ch \in TypeA |-> NoInput]
  /\ order' = <<>>
  /\ ledWrites' = 0
  /\ UNCHANGED <<allOK, begun, led, ledAtEntry, anyFaults, criticalError, arg>>

Next ==
  \/ SetupStart
  \/ Begin855
  \/ Check855
  \/ Begin856
  \/ Check856
  \/ Halt
  \/ LoopEnter
  \/ Read855
  \/ Read856
  \/ UpdateLED
  \/ Delay

Spec == Init /\ [][Next]_vars

\* The sketch is the only thread and every driver call returns, so a step
\* that is possible is eventually taken.
FairSpec == Spec /\ WF_vars(Next)

\* ------------------------------------------------------------------------
\* One read call in isolation: the call loop() makes for channel arg.ch,
\* entered with any values of loop()'s two flags, the driver holding the
\* temperature arg.temp and the fault bitmask arg.fault
\* ------------------------------------------------------------------------

InitRead ==
  /\ pc = "call"
  /\ arg \in [ch : Channels, temp : Temps, fault : Faults]
  /\ allOK = TRUE
  /\ begun = [ch \in Channels |-> "ok"]
  /\ led = COLOR_OK
  /\ ledAtEntry = COLOR_OK
  /\ anyFaults \in BOOLEAN
  /\ criticalError \in BOOLEAN
  /\ verdict = [ch \in Channels |-> NoVerdict]
  /\ in855 = [ch \in TypeA |-> NoInput]
  /\ order = <<>>
  /\ ledWrites = 0

\* anyFaults |= readMAX31855(tcN, N, criticalError) on the values of arg
CallRead855 ==
  /\ pc = "call"
  /\ arg.ch \in TypeA
  /\ Commit(arg.ch, ReadOutcome(arg.ch, arg.temp, arg.fault,
                                 anyFaults, criticalError))
  /\ pc' = "ret"
  /\ UNCHANGED <<allOK, begun, led, ledAtEntry, ledWrites, arg>>

\* anyFaults |= readMAX31856(tcN, N, criticalError) on the values of arg
CallRead856 ==
  /\ pc = "call"
  /\ arg.ch \in TypeB
  /\ Commit(arg.ch, ReadOutcome(arg.ch, arg.temp, arg.fault,
                                 anyFaults, criticalError))
  /\ pc' = "ret"
  /\ UNCHANGED <<allOK, begun, led, ledAtEntry, ledWrites, arg>>

NextRead ==
  \/ CallRead855
  \/ CallRead856

SpecRead == InitRead /\ [][NextRead]_vars

\* ------------------------------------------------------------------------
\* Vocabulary of the properties
\* ------------------------------------------------------------------------

\* number of set bits of an 8-bit value
RECURSIVE PopCount(_)
PopCount(n) == IF n = 0 THEN 0 ELSE (n % 2) + PopCount(n \div 2)

\* the three MAX31855 flags of a bitmask, as a number 0..7
Known855(fault) == fault % 8

\* a read call of a MAX31855 channel has returned; Returned855B: and it
\* called readError(), which gave arg.fault
Returned855 == pc = "ret" /\ arg.ch \in TypeA
Returned855B == Returned855 /\ isnan(arg.temp)
Returned856 == pc = "ret" /\ arg.ch \in TypeB

\* ------------------------------------------------------------------------
\* C2: a MAX31855 read whose bitmask has exactly one of open-circuit,
\* short-to-ground, short-to-VCC set returns hasFault = true and does not set
\* criticalError; with two or three of them set it returns hasFault = true
\* and sets criticalError.
\* ------------------------------------------------------------------------
C2_SingleAndMultiFlag ==
  Returned855B =>
    LET v == verdict[arg.ch]
    IN  /\ PopCount(Known855(arg.fault)) = 1
             => v.hasFault /\ ~v.isCritical
        /\ PopCount(Known855(arg.fault)) \in {2, 3}
             => v.hasFault /\ v.isCritical /\ criticalError

C2_Witness ==
  /\ Returned855B
  /\ arg.fault = 6
  /\ verdict[arg.ch].hasFault
  /\ verdict[arg.ch].isCritical

\* ------------------------------------------------------------------------
\* C3 as stated: the hasFault a MAX31855 read returns is true exactly when
\* the bitmask it read is non-zero, whatever the temperature.
\* ------------------------------------------------------------------------
C3_AsStated ==
  Returned855B => (verdict[arg.ch].hasFault <=> arg.fault # 0)

\* C3 amended: the hasFault a MAX31855 read returns is true exactly when the
\* temperature read is NaN; the bitmask, read only then, does not change it,
\* so a non-zero bitmask read comes with hasFault = true and hasFault = false
\* comes only with a temperature that is a number.
C3_FaultIffNaN ==
  Returned855 =>
    /\ verdict[arg.ch].hasFault <=> isnan(arg.temp)
    /\ (isnan(arg.temp) /\ arg.fault # 0) => verdict[arg.ch].hasFault

C3_Witness ==
  /\ Returned855B
  /\ arg.fault = 0
  /\ verdict[arg.ch].hasFault

\* ------------------------------------------------------------------------
\* C4: for every 8-bit bitmask a MAX31856 read returns hasFault = true
\* exactly when the bitmask is non-zero, and sets criticalError exactly when
\* more than two of its eight bits are set or it is 0xFF; so 0x41 is a fault
\* that is not critical, and three set bits, or 0xFF, are critical.
\* ------------------------------------------------------------------------
C4_TypeBVerdict ==
  Returned856 =>
    LET v == verdict[arg.ch]
    IN  /\ v.hasFault <=> arg.fault # 0
        /\ v.isCritical <=> (PopCount(arg.fault) > 2 \/ arg.fault = 255)
        /\ v.isCritical => criticalError
        /\ arg.fault = 65 => v.hasFault /\ ~v.isCritical
        /\ PopCount(arg.fault) = 3 => v.isCritical
        /\ arg.fault = 255 => v.isCritical

C4_Witness ==
  /\ Returned856
  /\ arg.fault = 65
  /\ verdict[arg.ch].hasFault
  /\ ~verdict[arg.ch].isCritical

\* ------------------------------------------------------------------------
\* Vocabulary of the properties about setup() and loop()
\* ------------------------------------------------------------------------

AllChannels == <<0, 1, 2, 3, 4, 5>>

SetupPcs == {"setup", "check855", "check856"} \cup {BeginPc[i] : i \in 1 .. 6}
LoopPcs == {"loop", "led", "delay"} \cup {ReadPc[i] : i \in 1 .. 6}
InLoop == pc \in LoopPcs

\* loop() has written the LED for this cycle and is in its delay
CycleDone == pc = "delay"

AnyCritical == \E ch \in Channels : verdict[ch].isCritical
AnyFault == \E ch \in Channels : verdict[ch].hasFault

\* the verdicts of channels i and j exchanged
Swap(v, i, j) ==
  [ch \in Channels |-> IF ch = i THEN v[j] ELSE IF ch = j THEN v[i] ELSE v[ch]]

\* ------------------------------------------------------------------------
\* C1: at the end of a poll cycle the LED colour is COLOR_ERROR exactly when
\* some channel's verdict of this cycle is critical, COLOR_WARNING exactly
\* when none is critical and some channel has a fault, COLOR_OK only when no
\* channel has a fault; and the colour loop() derives from the six verdicts
\* is the same with the verdicts of any two channels exchanged (so under
\* every permutation).
\* ------------------------------------------------------------------------
C1_ColourFromVerdicts ==
  CycleDone =>
    /\ led = COLOR_ERROR <=> AnyCritical
    /\ led = COLOR_WARNING <=> (~AnyCritical /\ AnyFault)
    /\ led = COLOR_OK => ~AnyFault
    /\ led = LoopColor(verdict)
    /\ \A i, j \in Channels : LoopColor(Swap(verdict, i, j)) = led

C1_Witness ==
  /\ CycleDone
  /\ verdict[5].isCritical
  /\ verdict[0].hasFault /\ ~verdict[0].isCritical
  /\ led = COLOR_ERROR

\* ------------------------------------------------------------------------
\* C5: setup() gets past its checks only with every begin() successful; a
\* failed begin() of any channel leads to the halt, where the LED is
\* COLOR_ERROR, no channel has been read, and nothing changes any more.
\* ------------------------------------------------------------------------
C5_HaltOnInitFailure ==
  /\ [](pc \notin SetupPcs /\ (\E ch \in Channels : begun[ch] = "failed")
          => pc = "halted")
  /\ [](pc = "halted"
          => /\ led = COLOR_ERROR
             /\ order = <<>>
             /\ \A ch \in Channels : ~verdict[ch].read)
  /\ [][pc = "halted" => UNCHANGED vars]_vars
  /\ ((\E ch \in Channels : begun[ch] = "failed") ~> pc = "halted")

C5_Witness ==
  /\ pc = "halted"
  /\ \A ch \in TypeA : begun[ch] = "ok"
  /\ begun[4] = "ok"
  /\ begun[5] = "failed"
  /\ led = COLOR_ERROR

\* ------------------------------------------------------------------------
\* C6: once in loop() the program stays in loop(), whatever the channels
\* report, and from every point of loop() each of the six channels is read
\* again and the LED is written again.
\* ------------------------------------------------------------------------
C6_PollsForever ==
  /\ [][InLoop => InLoop']_vars
  /\ \A ch \in Channels :
       (InLoop ~> (pc = (IF ch = 5 THEN "led" ELSE ReadPc[ch + 2])
                   /\ verdict[ch].read))
  /\ (InLoop ~> CycleDone)
  /\ ((CycleDone /\ AnyCritical) ~> pc = ReadPc[1])

C6_Witness ==
  /\ pc = ReadPc[3]
  /\ ledAtEntry = COLOR_ERROR
  /\ verdict[1].isCritical

\* ------------------------------------------------------------------------
\* C7: loop() starts every cycle with anyFaults and criticalError false, so a
\* cycle in which no channel reports a fault ends with the LED at COLOR_OK,
\* whatever colour the cycle before left.
\* ------------------------------------------------------------------------
C7_NoFaultMemory ==
  /\ pc = ReadPc[1] => ~anyFaults /\ ~criticalError
  /\ (CycleDone /\ ~AnyFault) => led = COLOR_OK

C7_Witness ==
  /\ CycleDone
  /\ ~AnyFault
  /\ ledAtEntry = COLOR_ERROR
  /\ led = COLOR_OK

\* ------------------------------------------------------------------------
\* C8: in every cycle the channels are read once each in the order 0, 1, 2,
\* 3, 4, 5; the LED is written once, after the read of channel 5 and before
\* the delay, and at no other point of loop(); a cycle starts only after the
\* delay of the cycle before (or after setup()).
\* ------------------------------------------------------------------------
C8_OneOrderedPassPerCycle ==
  /\ [](/\ Len(order) <= 6
        /\ order = SubSeq(AllChannels, 1, Len(order))
        /\ \A i \in 1 .. 6 :
             pc = ReadPc[i] => Len(order) = i - 1 /\ ledWrites = 0
        /\ pc = "led" => order = AllChannels /\ ledWrites = 0
        /\ pc = "delay" => order = AllChannels /\ ledWrites = 1)
  /\ [][(InLoop /\ led' # led) => (pc = "led" /\ pc' = "delay")]_vars
  /\ [][pc' = ReadPc[1] => pc = "loop"]_vars
  /\ [][(pc' = "loop" /\ pc # "loop") => pc \in {"delay", "check856"}]_vars

C8_Witness ==
  /\ CycleDone
  /\ order = AllChannels
  /\ ledWrites = 1
  /\ ledAtEntry = COLOR_WARNING

\* setup() is over: the program halted or reached loop()
SetupOver == pc = "halted" \/ InLoop

\* ------------------------------------------------------------------------
\* C9 as stated: whenever setup() is over, begin() has been called on each of
\* the six channels.
\* ------------------------------------------------------------------------
C9_AsStated ==
  SetupOver => \A ch \in Channels : begun[ch] # "none"

\* C9 amended: whenever setup() is over, begin() has been called on each of
\* the four MAX31855 channels, whatever the earlier begin() calls returned;
\* it has been called on the MAX31856 channels exactly when all four MAX31855
\* calls succeeded, and then on both of them, whatever channel 4 returned.
C9_BeginCalls ==
  SetupOver =>
    /\ \A ch \in TypeA : begun[ch] # "none"
    /\ (\A ch \in TypeA : begun[ch] = "ok")
         <=> (\A ch \in TypeB : begun[ch] # "none")
    /\ (\E ch \in TypeB : begun[ch] # "none")
         => (\A ch \in TypeB : begun[ch] # "none")

C9_Witness ==
  /\ pc = "halted"
  /\ begun[0] = "failed"
  /\ \A ch \in TypeA : begun[ch] # "none"
  /\ \A ch \in TypeB : begun[ch] = "none"

\* every channel but ch gave a normal reading in this cycle: a temperature
\* that is a number (MAX31855), no fault (MAX31856)
OthersNormal(ch) ==
  \A o \in Channels \ {ch} :
    /\ verdict[o].read
    /\ IF o \in TypeA THEN ~in855[o].tempNaN ELSE ~verdict[o].hasFault

\* ------------------------------------------------------------------------
\* C10: a MAX31855 read whose temperature is NaN returns hasFault = true
\* whatever bitmask readError() gives then; when the bitmask has none of the
\* three flags the call does not set criticalError, and a cycle in which
\* this is the only abnormal reading ends with the LED at COLOR_WARNING.
\* ------------------------------------------------------------------------
C10_NaNIsAFault ==
  \A ch \in TypeA :
    /\ (verdict[ch].read /\ in855[ch].tempNaN) => verdict[ch].hasFault
    /\ in855[ch].noFlag => verdict[ch].hasFault /\ ~verdict[ch].isCritical
    /\ (CycleDone /\ in855[ch].noFlag /\ OthersNormal(ch))
         => led = COLOR_WARNING

C10_Witness ==
  /\ CycleDone
  /\ in855[2].noFlag
  /\ OthersNormal(2)
  /\ led = COLOR_WARNING

====
